---- MODULE Spec2Model ----
(***************************************************************************)
(* A model of ppimg (src/ppimg.py): the illustration passes over a         *)
(* line-oriented document buffer.                                          *)
(*                                                                         *)
(* Text.  A string is a sequence of atoms; an atom is a piece of text that *)
(* no regular expression of the program looks inside (".il", "=", " ",     *)
(* "[Illustration", a digit run, ...).  The string is the concatenation of *)
(* its atoms, so "^\.il " matches exactly the strings whose first two      *)
(* atoms are ".il" and " ".  A buffer is a sequence of strings.            *)
(***************************************************************************)
EXTENDS Integers, Sequences, FiniteSets, TLC

VARIABLES
  pc,                \* position of the running pass: "run", "done", "fatal", "crash"
  inBuf,             \* the document buffer handed to the pass
  outBuf,            \* the buffer the pass builds or rewrites
  lineNum,           \* 0-based scan position, as in the code
  currentScanPage,   \* the scan page tracker's value
  images,            \* buildImageDictionary(): id -> asset record
  illustrations,     \* parseIllustrationBlocks(): key -> Directive record
  order,             \* insertion order of the keys of illustrations
  log,               \* what the pass reported, in order (logging.* calls)
  counts,            \* illustrationTagCount / asteriskIllustrationTagCount
  jsonData,          \* the width cache (images.json)
  args,              \* the dict handed to generateIlStatement, as the call leaves it
  given,             \* the items of that dict when the call was made
  arguments,         \* what parseArgs returned for the generated statement
  item,              \* how many items the running for loop has done
  maxwidth           \* the --maxwidth option of calcImageWidths

vars == <<pc, inBuf, outBuf, lineNum, currentScanPage, images, illustrations,
          order, log, counts, jsonData, args, given, arguments, item, maxwidth>>

argVars == <<args, given, arguments, maxwidth>>

----------------------------------------------------------------------------
(* Bounds of the model *)

MaxRawLines == 4

MaxParams == 3

MaxDocLines == 4

----------------------------------------------------------------------------
(* Strings *)

None == <<>>

StartsWith(s, p) == Len(s) >= Len(p) /\ SubSeq(s, 1, Len(p)) = p

EndsWithAtom(s, a) == Len(s) >= 1 /\ s[Len(s)] = a

Drop(s, n) == SubSeq(s, n + 1, Len(s))

Contains(s, a) == \E i \in 1..Len(s) : s[i] = a

SeqsUpTo(S, n) == UNION { [1..k -> S] : k \in 0..n }

Digits == <<"0", "1", "2", "3", "4", "5", "6", "7", "8", "9">>

DigitAtoms == { Digits[i] : i \in 1..10 } \cup { "005", "010", "099" }

Exts == { ".jpg", ".png", ".jpeg" }

\* str(n) of a non-negative integer
RECURSIVE IntToStr(_)
IntToStr(n) ==
  IF n < 10 THEN << Digits[n + 1] >>
  ELSE IntToStr(n \div 10) \o << Digits[(n % 10) + 1] >>

LastIndexIn(s, S) ==
  LET I == { i \in 1..Len(s) : s[i] \in S } IN
  IF I = {} THEN 0 ELSE CHOOSE i \in I : \A j \in I : j <= i

\* os.path.basename(fn)
basename(fn) == Drop(fn, LastIndexIn(fn, {"/"}))

\* os.path.splitext(s)[0]: cut at the last extension dot, a leading dot is none
splitext(s) ==
  LET b   == basename(s)
      dot == LastIndexIn(b, Exts)
  IN  IF dot > 1 THEN SubSeq(s, 1, Len(s) - Len(b) + dot - 1) ELSE s

idFromFilename(fn) == splitext(basename(fn))

idFromPageNumber(pn) == <<"i_">> \o pn

----------------------------------------------------------------------------
(* Scan-page tracker *)

RECURSIVE LeadingDigits(_)
LeadingDigits(s) ==
  IF Len(s) >= 1 /\ s[1] \in DigitAtoms THEN 1 + LeadingDigits(Tail(s)) ELSE 0

\* one re.match(prefix + r"(\d+\.(png|jpg|jpeg))", line): group(1) or None
MatchPage(line, prefix) ==
  IF StartsWith(line, prefix)
  THEN LET rest == Drop(line, Len(prefix))
           n    == LeadingDigits(rest)
       IN  IF n >= 1 /\ Len(rest) > n /\ rest[n + 1] \in Exts
           THEN SubSeq(rest, 1, n + 1)
           ELSE None
  ELSE None

parseScanPage(line) ==
  LET m1 == MatchPage(line, <<"-----File: ">>)
      m2 == MatchPage(line, <<"// ">>)
      m3 == MatchPage(line, <<".bn ">>)
  IN  IF m3 # None THEN m3 ELSE IF m2 # None THEN m2 ELSE m1

\* currentScanPage after the loop body has looked at `line`
TrackPage(page, line) ==
  LET pn == parseScanPage(line) IN
  IF pn # None THEN splitext(pn) ELSE page

----------------------------------------------------------------------------
(* Image inventory *)

\* the record buildImageDictionary stores for one loadable file
Asset(fn, w, h) ==
  [ anchorID |-> idFromFilename(fn), fileName |-> fn, dimensions |-> <<w, h>>,
    usageCount |-> 0 ]

\* files: a set of [fn, w, h] with pairwise different ids
buildImageDictionary(files) ==
  [ k \in { idFromFilename(f.fn) : f \in files } |->
      LET f == CHOOSE g \in files : idFromFilename(g.fn) = k
      IN  Asset(f.fn, f.w, f.h) ]

----------------------------------------------------------------------------
(* Raw markup converter and its id resolver *)

Letters ==
  << "a", "b", "c", "d", "e", "f", "g", "h", "i", "j", "k", "l", "m",
     "n", "o", "p", "q", "r", "s", "t", "u", "v", "w", "x", "y", "z" >>

IsTagOpen(line) == StartsWith(line, <<"[Illustration">>)

IsStarTagOpen(line) == StartsWith(line, <<"*", "[Illustration">>)

IsTagStart(line) == IsTagOpen(line) \/ IsStarTagOpen(line)

\* the inner while: 0-based index of the last line of the block opened at n
RECURSIVE BlockLast(_, _)
BlockLast(buf, n) ==
  IF n < Len(buf) - 1 /\ ~EndsWithAtom(buf[n + 1], "]")
  THEN BlockLast(buf, n + 1)
  ELSE n

IsUnused(imgs, id) == id \in DOMAIN imgs /\ imgs[id].usageCount = 0

FirstLetterPresent(imgs, testID) ==
  LET I == { i \in 1..Len(Letters) : (testID \o <<Letters[i]>>) \in DOMAIN imgs } IN
  IF I = {} THEN None
  ELSE testID \o << Letters[CHOOSE i \in I : \A j \in I : i <= j] >>

\* the for loop over the alphabet: first testID+letter present and unused
FirstFreeLetter(imgs, testID) ==
  LET I == { i \in 1..Len(Letters) : IsUnused(imgs, testID \o <<Letters[i]>>) } IN
  IF I = {} THEN None
  ELSE testID \o << Letters[CHOOSE i \in I : \A j \in I : i <= j] >>

ResolveIdReuseFirst(imgs, page) ==
  LET testID == idFromPageNumber(page) IN
  IF testID \in DOMAIN imgs THEN testID ELSE FirstFreeLetter(imgs, testID)

\* the id of the next tag on `page`, None when the pass must abort
ResolveId(imgs, page) ==
  LET testID == idFromPageNumber(page)
      ilID   == IF IsUnused(imgs, testID) THEN testID
                ELSE FirstFreeLetter(imgs, testID)
  IN  IF ilID = None /\ testID \in DOMAIN imgs THEN testID ELSE ilID

IlLine(imgs, ilID) ==
  <<".il", " ", "id", "=">> \o ilID \o <<" ", "fn", "=">> \o imgs[ilID].fileName
    \o <<" ", "w", "=">> \o IntToStr(imgs[ilID].dimensions[1])
    \o <<"px", " ", "alt", "=", "'", "'">>

\* the three re.sub calls applied to one line of the block
StripTag(line) ==
  LET a == IF StartsWith(line, <<"[Illustration", ": ">>) THEN Drop(line, 2) ELSE line
      b == IF StartsWith(a, <<"[Illustration">>) THEN Drop(a, 1) ELSE a
  IN  IF EndsWithAtom(b, "]") THEN SubSeq(b, 1, Len(b) - 1) ELSE b

CaptionLines(captionBlock) ==
  IF Len(captionBlock) = 1 /\ captionBlock[1] = <<>> THEN <<>>
  ELSE IF Len(captionBlock) = 1 THEN << <<".ca", " ">> \o captionBlock[1] >>
  ELSE << <<".ca">> >> \o captionBlock \o << <<".ca", "-">> >>

OutBlock(imgs, ilID, inBlock) ==
  << IlLine(imgs, ilID) >>
    \o CaptionLines([ i \in 1..Len(inBlock) |-> StripTag(inBlock[i]) ])

ConvLine == inBuf[lineNum + 1]

ConvPage == TrackPage(currentScanPage, ConvLine)

ConvBlock == SubSeq(inBuf, lineNum + 1, BlockLast(inBuf, lineNum) + 1)

ConvCount ==
  IF IsStarTagOpen(ConvLine)
  THEN [ counts EXCEPT !.asterisk = @ + 1 ]
  ELSE [ counts EXCEPT !.plain = @ + 1 ]

\* a tag whose id resolves: the block is replaced by .il/.ca lines
ConvertTag ==
  /\ pc = "run" /\ lineNum < Len(inBuf)
  /\ IsTagStart(ConvLine)
  /\ LET ilID == ResolveId(images, ConvPage) IN
     /\ ilID # None
     /\ outBuf' = outBuf \o OutBlock(images, ilID, ConvBlock)
     /\ images' = [ images EXCEPT ![ilID].usageCount = @ + 1 ]
     /\ log' = Append(log, [ kind |-> "convert", line |-> BlockLast(inBuf, lineNum) + 1,
                             page |-> ConvPage, inBlock |-> ConvBlock, id |-> ilID,
                             outBlock |-> OutBlock(images, ilID, ConvBlock) ])
  /\ lineNum' = BlockLast(inBuf, lineNum) + 1
  /\ currentScanPage' = ConvPage
  /\ counts' = ConvCount
  /\ UNCHANGED <<pc, inBuf, illustrations, order, jsonData, argVars, item>>

\* a tag on a page with no candidate asset: fatal()
ConvertFatal ==
  /\ pc = "run" /\ lineNum < Len(inBuf)
  /\ IsTagStart(ConvLine)
  /\ ResolveId(images, ConvPage) = None
  /\ pc' = "fatal"
  /\ log' = Append(log, [ kind |-> "fatal", line |-> BlockLast(inBuf, lineNum) + 1,
                          page |-> ConvPage, inBlock |-> ConvBlock, id |-> None,
                          outBlock |-> <<>> ])
  /\ lineNum' = BlockLast(inBuf, lineNum) + 1
  /\ currentScanPage' = ConvPage
  /\ counts' = ConvCount
  /\ UNCHANGED <<inBuf, outBuf, images, illustrations, order, jsonData, argVars, item>>

\* any other line is copied
ConvertCopy ==
  /\ pc = "run" /\ lineNum < Len(inBuf)
  /\ ~IsTagStart(ConvLine)
  /\ outBuf' = Append(outBuf, ConvLine)
  /\ lineNum' = lineNum + 1
  /\ currentScanPage' = ConvPage
  /\ UNCHANGED <<pc, inBuf, images, illustrations, order, log, counts, jsonData, argVars, item>>

ConvertDone ==
  /\ pc = "run" /\ lineNum >= Len(inBuf)
  /\ pc' = "done"
  /\ UNCHANGED <<inBuf, outBuf, lineNum, currentScanPage, images, illustrations,
                 order, log, counts, jsonData, argVars, item>>

\* the raw documents and inventories the converter is run on
RawLines ==
  { <<"// ", "010", ".png">>,
    <<"[Illustration", ": ", "A", "]">>,
    <<"[Illustration", "]">>,
    <<"*", "[Illustration", ": ", "A", "]">>,
    <<"[Illustration", ": ", "A">>,
    <<"B", "]">> }

RawFiles ==
  { [ fn |-> <<"i_", "0", ".jpg">>, w |-> 500, h |-> 400 ],
    [ fn |-> <<"i_", "010", ".jpg">>, w |-> 600, h |-> 800 ],
    [ fn |-> <<"i_", "010", "a", ".jpg">>, w |-> 640, h |-> 480 ],
    [ fn |-> <<"i_", "010", "b", ".jpg">>, w |-> 320, h |-> 200 ] }

InitConvert ==
  /\ pc = "run"
  /\ inBuf \in SeqsUpTo(RawLines, MaxRawLines)
  /\ outBuf = <<>>
  /\ lineNum = 0
  /\ currentScanPage = <<"0">>
  /\ images \in { buildImageDictionary(F) : F \in SUBSET RawFiles }
  /\ illustrations = <<>>
  /\ order = <<>>
  /\ log = <<>>
  /\ counts = [ plain |-> 0, asterisk |-> 0 ]
  /\ jsonData = <<>>
  /\ args = <<>>
  /\ given = <<>>
  /\ arguments = <<>>
  /\ item = 0
  /\ maxwidth = 0

NextConvert == ConvertTag \/ ConvertFatal \/ ConvertCopy \/ ConvertDone

SpecConvert == InitConvert /\ [][NextConvert]_vars

----------------------------------------------------------------------------
(* Claims about the raw markup converter (SpecConvert) *)

\* 0-based index of the first line of the tag of log entry k
TagStart(k) == log[k].line - Len(log[k].inBlock)

\* how many earlier tags of the pass were given `id`
UsedBefore(k, id) ==
  Cardinality({ j \in 1..(k - 1) : log[j].kind = "convert" /\ log[j].id = id })

FreeBefore(k, id) == id \in DOMAIN images /\ UsedBefore(k, id) = 0

\* the id the resolution order (1)..(4) gives tag k for `base`; None is the abort
OrderedChoice(k, base) ==
  IF FreeBefore(k, base) THEN base
  ELSE IF \E i \in 1..Len(Letters) : FreeBefore(k, base \o <<Letters[i]>>)
       THEN base \o << Letters[CHOOSE i \in 1..Len(Letters) :
                          /\ FreeBefore(k, base \o <<Letters[i]>>)
                          /\ \A j \in 1..(i - 1) : ~FreeBefore(k, base \o <<Letters[j]>>)] >>
  ELSE IF base \in DOMAIN images THEN base
  ELSE None

\* the page of the most recent marker line among lines 1..n of the buffer
RECURSIVE PageOfMarkers(_, _)
PageOfMarkers(buf, n) ==
  IF n = 0 THEN <<"0">> ELSE TrackPage(PageOfMarkers(buf, n - 1), buf[n])

\* line i (1-based) lies inside the tag of an earlier log entry than k
InsideEarlierTag(k, i) ==
  \E j \in 1..(k - 1) : TagStart(j) + 1 < i /\ i <= log[j].line

\* the same, passing over the marker lines an earlier tag of the pass swallowed
RECURSIVE PageOfScannedMarkers(_, _)
PageOfScannedMarkers(k, n) ==
  IF n = 0 THEN <<"0">>
  ELSE IF InsideEarlierTag(k, n) THEN PageOfScannedMarkers(k, n - 1)
  ELSE TrackPage(PageOfScannedMarkers(k, n - 1), inBuf[n])

EntryFollows(k, base) ==
  /\ log[k].id = OrderedChoice(k, base)
  /\ (log[k].kind = "fatal") = (OrderedChoice(k, base) = None)

\* C1 (as stated): every tag's id is OrderedChoice for base = 'i_' + the page of
\* the most recent marker line at or before the tag, against the usage counts
\* left by the earlier tags; the pass aborts exactly when there is no candidate.
C1_Original ==
  \A k \in 1..Len(log) :
    EntryFollows(k, idFromPageNumber(PageOfMarkers(inBuf, TagStart(k) + 1)))

\* C1 (amended): the same with the page of the most recent marker line at or
\* before the tag that the scan examined, i.e. that is not a line of an
\* earlier raw tag of the pass.
C1_ResolutionOrder ==
  \A k \in 1..Len(log) :
    EntryFollows(k, idFromPageNumber(PageOfScannedMarkers(k, TagStart(k) + 1)))

\* three tags on page 010 with i_010 and i_010a in the inventory: base, then
\* base+'a', then base again
C1_Witness ==
  /\ Len(log) = 3
  /\ \A k \in 1..3 : log[k].kind = "convert" /\ log[k].page = <<"010">>
  /\ log[1].id = <<"i_", "010">>
  /\ log[2].id = <<"i_", "010", "a">>
  /\ log[3].id = <<"i_", "010">>

IsLetterId(id) == \E i \in 1..Len(Letters) : EndsWithAtom(id, Letters[i])

\* C2 (as stated): the id attached to a tag is unused when it is attached, and
\* no usage count exceeds 1.
C2_Original ==
  /\ \A k \in 1..Len(log) : log[k].kind = "convert" => UsedBefore(k, log[k].id) = 0
  /\ \A id \in DOMAIN images : images[id].usageCount <= 1

\* C2 (amended): the id attached to a tag is unused when it is attached unless
\* neither the page's base id nor any of base+'a'..'z' is in the inventory
\* unused, and then it is the base id, used again; a usage count is the number
\* of tags the id was attached to, and only a base id's count exceeds 1.
C2_UnusedOrBaseReuse ==
  /\ \A k \in 1..Len(log) :
       log[k].kind = "convert" =>
         \/ UsedBefore(k, log[k].id) = 0
         \/ /\ log[k].id = idFromPageNumber(log[k].page)
            /\ \A i \in 1..Len(Letters) :
                 ~FreeBefore(k, log[k].id \o <<Letters[i]>>)
  /\ \A id \in DOMAIN images :
       /\ images[id].usageCount = UsedBefore(Len(log) + 1, id)
       /\ images[id].usageCount > 1 => ~IsLetterId(id)

\* a base id attached to a second tag while a lettered id of the page is in use
C2_Witness ==
  /\ \E id \in DOMAIN images : images[id].usageCount = 2
  /\ \E id \in DOMAIN images : IsLetterId(id) /\ images[id].usageCount = 1

\* the caption of a tag as C3 describes it: both opening markers and the
\* closing bracket stripped from every line
StripDelimiters(line) ==
  LET a == IF StartsWith(line, <<"*", "[Illustration">>) THEN Drop(line, 1) ELSE line
      b == IF StartsWith(a, <<"[Illustration">>) THEN Drop(a, 1) ELSE a
      c == IF StartsWith(b, <<": ">>) THEN Drop(b, 1) ELSE b
  IN  IF EndsWithAtom(c, "]") THEN SubSeq(c, 1, Len(c) - 1) ELSE c

\* C3: every raw tag, '[Illustration' or '*[Illustration', becomes its .il line
\* followed by the caption with the delimiters stripped from every line
\* (nothing, '.ca text', or '.ca' .. '.ca-'), and no emitted caption line
\* contains the opening tag marker.
C3_TagReplaced ==
  \A k \in 1..Len(log) :
    log[k].kind = "convert" =>
      LET e       == log[k]
          caption == [ i \in 1..Len(e.inBlock) |-> StripDelimiters(e.inBlock[i]) ]
          il      == <<".il", " ", "id", "=">> \o e.id \o <<" ", "fn", "=">>
                       \o images[e.id].fileName \o <<" ", "w", "=">>
                       \o IntToStr(images[e.id].dimensions[1])
                       \o <<"px", " ", "alt", "=", "'", "'">>
          ca      == IF caption = << <<>> >> THEN <<>>
                     ELSE IF Len(caption) = 1 THEN << <<".ca", " ">> \o caption[1] >>
                     ELSE << <<".ca">> >> \o caption \o << <<".ca", "-">> >>
      IN  /\ e.outBlock = <<il>> \o ca
          /\ \A i \in 2..Len(e.outBlock) : ~Contains(e.outBlock[i], "[Illustration")

\* an asterisk tag with a one-line caption has been converted
C3_Witness ==
  \E k \in 1..Len(log) :
    /\ log[k].kind = "convert"
    /\ log[k].inBlock = << <<"*", "[Illustration", ": ", "A", "]">> >>

----------------------------------------------------------------------------
(* Parameter maps: a dict as the sequence of its items in insertion order *)

Has(m, k) == \E i \in 1..Len(m) : m[i].k = k

Get(m, k) == m[CHOOSE i \in 1..Len(m) : m[i].k = k].v

Keys(m) == { m[i].k : i \in 1..Len(m) }

\* m[k] = v: a present key keeps its place, a new one goes last
Put(m, k, v) ==
  IF Has(m, k)
  THEN [ i \in 1..Len(m) |-> IF m[i].k = k THEN [ k |-> k, v |-> v ] ELSE m[i] ]
  ELSE Append(m, [ k |-> k, v |-> v ])

\* del m[k]
Del(m, k) == SelectSeq(m, LAMBDA e : e.k # k)

----------------------------------------------------------------------------
(* parseArgs *)

WhiteAtoms == { " ", "\t" }

QuoteAtoms == { "'", "\"" }

\* shlex.split over the atoms from position i on: cur is the token being read
\* (inTok says there is one), quote the open quote or "", out the tokens so far.
\* An unclosed quote is the ValueError shlex raises.
RECURSIVE ShlexFrom(_, _, _, _, _, _)
ShlexFrom(s, i, cur, inTok, quote, out) ==
  IF i > Len(s)
  THEN IF quote # "" THEN [ ok |-> FALSE, tokens |-> <<>> ]
       ELSE [ ok |-> TRUE, tokens |-> IF inTok THEN Append(out, cur) ELSE out ]
  ELSE IF quote # ""
       THEN IF s[i] = quote
            THEN ShlexFrom(s, i + 1, cur, TRUE, "", out)
            ELSE ShlexFrom(s, i + 1, Append(cur, s[i]), TRUE, quote, out)
       ELSE IF s[i] \in WhiteAtoms
            THEN IF inTok
                 THEN ShlexFrom(s, i + 1, <<>>, FALSE, "", Append(out, cur))
                 ELSE ShlexFrom(s, i + 1, <<>>, FALSE, "", out)
       ELSE IF s[i] \in QuoteAtoms
            THEN ShlexFrom(s, i + 1, cur, TRUE, s[i], out)
       ELSE ShlexFrom(s, i + 1, Append(cur, s[i]), TRUE, "", out)

shlexSplit(s) == ShlexFrom(s, 1, <<>>, FALSE, "", <<>>)

\* re.sub(r"[\'\"]", "", t)
StripQuotes(t) == SelectSeq(t, LAMBDA a : a \notin QuoteAtoms)

\* re.match(r"(.+)=(.+)", t): the greedy split point, 0 when there is no match
SplitPoint(t) ==
  LET I == { i \in 2..(Len(t) - 1) : t[i] = "=" } IN
  IF I = {} THEN 0 ELSE CHOOSE i \in I : \A j \in I : j <= i

RECURSIVE ArgsFrom(_, _, _)
ArgsFrom(tokens, i, m) ==
  IF i > Len(tokens) THEN m
  ELSE LET t == StripQuotes(tokens[i])
           p == SplitPoint(t)
       IN  ArgsFrom(tokens, i + 1,
                    IF p = 0 THEN m
                    ELSE Put(m, SubSeq(t, 1, p - 1), Drop(t, p)))

\* [ok, args]: ok is FALSE when shlex.split raises
parseArgs(commandLine) ==
  LET sp == shlexSplit(commandLine) IN
  [ ok |-> sp.ok, args |-> IF sp.ok THEN ArgsFrom(sp.tokens, 2, <<>>) ELSE <<>> ]

----------------------------------------------------------------------------
(* generateIlStatement *)

\* the first loop: a value with a space in it is put in single quotes
QuoteValues(m) ==
  [ i \in 1..Len(m) |->
      IF Contains(m[i].v, " ")
      THEN [ k |-> m[i].k, v |-> <<"'">> \o m[i].v \o <<"'">> ]
      ELSE m[i] ]

KeyValue(k, v) == <<" ">> \o k \o <<"=">> \o v

PriorityKeys ==
  << <<"id">>, <<"fn">>, <<"link">>, <<"alt">>, <<"w">>, <<"ew">>, <<"eh">>, <<"align">> >>

\* the eight "if k in args" blocks, from the i-th on: [text, rest of the map]
RECURSIVE EmitPriority(_, _, _)
EmitPriority(i, text, m) ==
  IF i > Len(PriorityKeys) THEN [ text |-> text, rest |-> m ]
  ELSE LET k == PriorityKeys[i] IN
       IF Has(m, k)
       THEN EmitPriority(i + 1, text \o KeyValue(k, Get(m, k)), Del(m, k))
       ELSE EmitPriority(i + 1, text, m)

\* the last loop: what is left, in the dict's order
RECURSIVE EmitRest(_, _)
EmitRest(text, m) ==
  IF m = <<>> THEN text
  ELSE EmitRest(text \o KeyValue(m[1].k, m[1].v), Tail(m))

generateIlStatement(m) ==
  LET p == EmitPriority(1, <<".il">>, QuoteValues(m)) IN
  EmitRest(p.text, p.rest)

----------------------------------------------------------------------------
(* Serialize, then parse: generateIlStatement followed by parseArgs *)

Serialize ==
  /\ pc = "run"
  /\ outBuf' = << generateIlStatement(args) >>
  /\ args' = EmitPriority(1, <<".il">>, QuoteValues(args)).rest
  /\ pc' = "stmt"
  /\ UNCHANGED <<inBuf, lineNum, currentScanPage, images, illustrations, order,
                 log, counts, jsonData, given, arguments, item, maxwidth>>

ParseBack ==
  /\ pc = "stmt"
  /\ parseArgs(outBuf[1]).ok
  /\ arguments' = parseArgs(outBuf[1]).args
  /\ pc' = "done"
  /\ UNCHANGED <<inBuf, outBuf, lineNum, currentScanPage, images, illustrations,
                 order, log, counts, jsonData, args, given, item, maxwidth>>

ArgKeys == { <<"fn">>, <<"alt">>, <<"w">>, <<"x">>, <<"y">> }

\* values without quote characters
ArgValues ==
  { <<>>, <<"a">>, <<"a", " ", "b">>, <<"a", "=", "b">>, <<"a", "\t", "b">> }

ArgMaps ==
  { m \in SeqsUpTo([ k : ArgKeys, v : ArgValues ], MaxParams) :
      \A i, j \in 1..Len(m) : i # j => m[i].k # m[j].k }

InitArgs ==
  /\ pc = "run"
  /\ args \in ArgMaps
  /\ given = args
  /\ arguments = <<>>
  /\ item = 0
  /\ maxwidth = 0
  /\ inBuf = <<>>
  /\ outBuf = <<>>
  /\ lineNum = 0
  /\ currentScanPage = <<"0">>
  /\ images = <<>>
  /\ illustrations = <<>>
  /\ order = <<>>
  /\ log = <<>>
  /\ counts = [ plain |-> 0, asterisk |-> 0 ]
  /\ jsonData = <<>>

NextArgs == Serialize \/ ParseBack

SpecArgs == InitArgs /\ [][NextArgs]_vars

SameMap(a, b) == Keys(a) = Keys(b) /\ \A k \in Keys(a) : Get(a, k) = Get(b, k)

\* C6: for every parameter map whose values hold no quote characters,
\* parseArgs(generateIlStatement(map)) has the keys of the map and its values.
C6_RoundTrip == pc = "done" => SameMap(arguments, given)

\* a map with an empty value, a value with a space and a value with '=' has
\* been serialized and parsed
C6_Witness ==
  /\ pc = "done"
  /\ \E i \in 1..Len(given) : given[i].v = <<>>
  /\ \E i \in 1..Len(given) : given[i].v = <<"a", " ", "b">>
  /\ \E i \in 1..Len(given) : given[i].v = <<"a", "=", "b">>

----------------------------------------------------------------------------
(* parseIllustrationBlocks *)

IsIl(line) == StartsWith(line, <<".il", " ">>)

IsCa(line) == StartsWith(line, <<".ca">>)

\* "^\.ca \S+"
IsCaSingle(line) ==
  StartsWith(line, <<".ca", " ">>) /\ Len(line) >= 3 /\ line[3] \notin WhiteAtoms

IsCaEnd(line) == StartsWith(line, <<".ca", "-">>)

\* the while of the caption block from 0-based line l on: the index of the
\* terminator line, or -1 when the index runs off the buffer (IndexError)
RECURSIVE CaBlockEnd(_, _)
CaBlockEnd(buf, l) ==
  IF l >= Len(buf) THEN -1
  ELSE IF IsCaEnd(buf[l + 1]) THEN l
  ELSE CaBlockEnd(buf, l + 1)

\* the body of the "if" for the .il line at 0-based index n: ok is FALSE when
\* the code raises (shlex ValueError, IndexError, KeyError on 'fn')
ParseBlock(buf, n, page) ==
  LET ilStatement == buf[n + 1]
      pa          == parseArgs(ilStatement)
      l           == n + 1
      hasNext     == l < Len(buf)
      next        == buf[l + 1]
      single      == hasNext /\ IsCa(next) /\ IsCaSingle(next)
      block       == hasNext /\ IsCa(next) /\ ~IsCaSingle(next)
      last        == IF block THEN CaBlockEnd(buf, l) ELSE l
      ok          == pa.ok /\ hasNext /\ last >= 0 /\ Has(pa.args, <<"fn">>)
  IN  [ ok      |-> ok,
        lineNum |-> IF single THEN l + 1 ELSE last,
        key     |-> IF ok THEN idFromFilename(Get(pa.args, <<"fn">>)) ELSE None,
        rec     |-> IF ~ok THEN <<>> ELSE
          [ ilStatement  |-> ilStatement,
            captionBlock |-> IF single THEN << Drop(next, 2) >>
                             ELSE IF block THEN SubSeq(buf, l + 2, last + 1)
                             ELSE <<>>,
            ilBlock      |-> IF single THEN << ilStatement, next >>
                             ELSE IF block THEN SubSeq(buf, n + 1, last + 1)
                             ELSE << ilStatement >>,
            startLine    |-> n,
            endLine      |-> IF single THEN l + 2
                             ELSE IF block THEN last + 1
                             ELSE l,
            ilParams     |-> pa.args,
            scanPageNum  |-> page ] ]

ParseLine == inBuf[lineNum + 1]

ParsePage == TrackPage(currentScanPage, ParseLine)

\* illustrations[key] = rec
SetItem(d, key, rec) == (key :> rec) @@ d

\* an .il block is read and stored
ParseIl ==
  /\ pc = "parse" /\ lineNum < Len(inBuf)
  /\ IsIl(ParseLine)
  /\ LET b == ParseBlock(inBuf, lineNum, ParsePage) IN
     /\ b.ok
     /\ lineNum' = b.lineNum
     /\ illustrations' = SetItem(illustrations, b.key, b.rec)
     /\ order' = IF b.key \in DOMAIN illustrations THEN order ELSE Append(order, b.key)
  /\ currentScanPage' = ParsePage
  /\ UNCHANGED <<pc, inBuf, outBuf, images, log, counts, jsonData, argVars, item>>

\* an .il block on which the code raises
ParseCrash ==
  /\ pc = "parse" /\ lineNum < Len(inBuf)
  /\ IsIl(ParseLine)
  /\ ~ParseBlock(inBuf, lineNum, ParsePage).ok
  /\ pc' = "crash"
  /\ currentScanPage' = ParsePage
  /\ UNCHANGED <<inBuf, outBuf, lineNum, images, illustrations, order, log, counts,
                 jsonData, argVars, item>>

\* any other line is passed over
ParseSkip ==
  /\ pc = "parse" /\ lineNum < Len(inBuf)
  /\ ~IsIl(ParseLine)
  /\ lineNum' = lineNum + 1
  /\ currentScanPage' = ParsePage
  /\ UNCHANGED <<pc, inBuf, outBuf, images, illustrations, order, log, counts,
                 jsonData, argVars, item>>

\* the end of the buffer: the mapping is returned
ParseReturn ==
  /\ pc = "parse" /\ lineNum >= Len(inBuf)
  /\ pc' = "done"
  /\ UNCHANGED <<inBuf, outBuf, lineNum, currentScanPage, images, illustrations,
                 order, log, counts, jsonData, argVars, item>>

Il(params) == <<".il">> \o params

P(k, v) == <<" ">> \o k \o <<"=">> \o v

ParseLines ==
  { Il(P(<<"fn">>, <<"a", ".jpg">>) \o P(<<"w">>, <<"5", "0", "%">>)),
    Il(P(<<"fn">>, <<"b", ".jpg">>) \o P(<<"w">>, <<"6", "0", "0", "px">>)),
    Il(P(<<"w">>, <<"5", "px">>)),
    <<".ca", " ", "Cap">>,
    <<".ca">>,
    <<".ca", "-">>,
    <<"text">> }

InitDoc(lines, inventories, widths) ==
  /\ pc = "parse"
  /\ inBuf \in SeqsUpTo(lines, MaxDocLines)
  /\ outBuf = inBuf
  /\ lineNum = 0
  /\ currentScanPage = <<"0">>
  /\ images \in inventories
  /\ illustrations = <<>>
  /\ order = <<>>
  /\ log = <<>>
  /\ counts = [ plain |-> 0, asterisk |-> 0 ]
  /\ args = <<>>
  /\ given = <<>>
  /\ arguments = <<>>
  /\ item = 0
  /\ maxwidth \in widths

InitParse == InitDoc(ParseLines, { <<>> }, { 0 }) /\ jsonData = <<>>

NextParse == ParseIl \/ ParseCrash \/ ParseSkip \/ ParseReturn

SpecParse == InitParse /\ [][NextParse]_vars

----------------------------------------------------------------------------
(* Claims about the directive parser (SpecParse) *)

\* the end (exclusive, 0-based) of the directive block that starts at line n:
\* the .il line, then a '.ca text' line or a '.ca' .. '.ca-' block if one follows
DirectiveEnd(buf, n) ==
  IF n + 1 < Len(buf) /\ IsCa(buf[n + 2])
  THEN IF IsCaSingle(buf[n + 2]) THEN n + 2 ELSE CaBlockEnd(buf, n + 1) + 1
  ELSE n + 1

\* the 0-based lines from n on at which a directive block starts
RECURSIVE DirectiveStarts(_, _)
DirectiveStarts(buf, n) ==
  IF n >= Len(buf) THEN {}
  ELSE IF IsIl(buf[n + 1])
       THEN {n} \cup DirectiveStarts(buf, DirectiveEnd(buf, n))
       ELSE DirectiveStarts(buf, n + 1)

\* C4: the range [startLine, endLine) of every Directive record is non-empty,
\* covers exactly the lines of its block, which are the lines stored for it,
\* and holds no line after the block.
C4_LineSpan ==
  \A k \in DOMAIN illustrations :
    LET r == illustrations[k] IN
    /\ r.startLine < r.endLine
    /\ r.endLine = DirectiveEnd(inBuf, r.startLine)
    /\ r.endLine - r.startLine = Len(r.ilBlock)
    /\ r.endLine <= Len(inBuf)
    /\ SubSeq(inBuf, r.startLine + 1, r.endLine) = r.ilBlock

\* a directive with a one-line caption has been parsed
C4_Witness ==
  \E k \in DOMAIN illustrations :
    /\ Len(illustrations[k].ilBlock) = 2
    /\ illustrations[k].captionBlock = << <<"Cap">> >>

\* C5: the mapping parseIllustrationBlocks returns has one record per
\* illustration block of the document, also when blocks share a filename.
C5_OnePerBlock ==
  pc = "done" =>
    Cardinality(DOMAIN illustrations) = Cardinality(DirectiveStarts(inBuf, 0))

\* a document with two blocks of the same filename has been parsed
C5_Witness ==
  /\ pc = "done"
  /\ \E m, n \in DirectiveStarts(inBuf, 0) : m # n /\ inBuf[m + 1] = inBuf[n + 1]

----------------------------------------------------------------------------
(* updateWidths.  outBuf is the list inBuf itself; the pass reads inBuf only to
   parse it, so inBuf stands for the lines the pass was given and outBuf for
   the lines of the list as the pass rewrites them. *)

\* parseIllustrationBlocks has returned; buildImageDictionary; the loop starts
UpdateBegin ==
  /\ pc = "parse" /\ lineNum >= Len(inBuf)
  /\ pc' = "update"
  /\ item' = 0
  /\ UNCHANGED <<inBuf, outBuf, lineNum, currentScanPage, images, illustrations,
                 order, log, counts, jsonData, argVars>>

UpdateKey == order[item + 1]

UpdateParams == illustrations[UpdateKey].ilParams

\* the item can be rewritten: it has w, and its image is in the inventory
UpdateOk ==
  /\ Has(UpdateParams, <<"w">>)
  /\ idFromFilename(Get(UpdateParams, <<"fn">>)) \in DOMAIN images

\* ilParams when generateIlStatement is called
UpdatedParams ==
  LET curWidth == Get(UpdateParams, <<"w">>)
      withEw   == IF Contains(curWidth, "%")
                  THEN Put(UpdateParams, <<"ew">>, curWidth)
                  ELSE UpdateParams
      key      == idFromFilename(Get(UpdateParams, <<"fn">>))
  IN  Put(withEw, <<"w">>, IntToStr(images[key].dimensions[1]) \o <<"px">>)

\* one pass of the for loop
UpdateItem ==
  /\ pc = "update" /\ item < Len(order)
  /\ UpdateOk
  /\ outBuf' = [ outBuf EXCEPT ![illustrations[UpdateKey].startLine + 1] =
                   generateIlStatement(UpdatedParams) ]
  /\ illustrations' = [ illustrations EXCEPT ![UpdateKey].ilParams =
                          EmitPriority(1, <<".il">>, QuoteValues(UpdatedParams)).rest ]
  /\ item' = item + 1
  /\ UNCHANGED <<pc, inBuf, lineNum, currentScanPage, images, order, log, counts,
                 jsonData, argVars>>

\* KeyError: no w parameter, or no image for the filename
UpdateCrash ==
  /\ pc = "update" /\ item < Len(order)
  /\ ~UpdateOk
  /\ pc' = "crash"
  /\ UNCHANGED <<inBuf, outBuf, lineNum, currentScanPage, images, illustrations,
                 order, log, counts, jsonData, argVars, item>>

UpdateReturn ==
  /\ pc = "update" /\ item >= Len(order)
  /\ pc' = "done"
  /\ UNCHANGED <<inBuf, outBuf, lineNum, currentScanPage, images, illustrations,
                 order, log, counts, jsonData, argVars, item>>

WidthLines ==
  { Il(P(<<"fn">>, <<"a", ".jpg">>) \o P(<<"w">>, <<"5", "0", "%">>)),
    Il(P(<<"id">>, <<"b">>) \o P(<<"fn">>, <<"b", ".jpg">>)
         \o P(<<"w">>, <<"5", "px">>) \o P(<<"x">>, <<"'", "p", " ", "q", "'">>)),
    Il(P(<<"fn">>, <<"a", ".jpg">>) \o P(<<"w">>, <<"6", "0", "0", "px">>)),
    Il(P(<<"fn">>, <<"z", ".jpg">>) \o P(<<"w">>, <<"5", "px">>)),
    <<".ca", " ", "Cap">>,
    <<"text">> }

WidthFiles ==
  { [ fn |-> <<"a", ".jpg">>, w |-> 1200, h |-> 900 ],
    [ fn |-> <<"b", ".jpg">>, w |-> 480, h |-> 640 ] }

InitWidths ==
  InitDoc(WidthLines, { buildImageDictionary(WidthFiles) }, { 0 }) /\ jsonData = <<>>

NextWidths ==
  ParseIl \/ ParseCrash \/ ParseSkip \/ UpdateBegin \/ UpdateItem \/ UpdateCrash
    \/ UpdateReturn

SpecWidths == InitWidths /\ [][NextWidths]_vars

\* the text of `line` has the item k=v, the value in quotes when it has a space
HasItem(line, k, v) ==
  LET kv == KeyValue(k, IF Contains(v, " ") THEN <<"'">> \o v \o <<"'">> ELSE v) IN
  \E i \in 1..Len(line) :
    /\ i + Len(kv) - 1 <= Len(line)
    /\ SubSeq(line, i, i + Len(kv) - 1) = kv
    /\ (i + Len(kv) - 1 = Len(line) \/ line[i + Len(kv)] = " ")

\* `new` is the directive `old` with w set to the pixel width of the asset of
\* its fn, and with ew set to the old w if that was a percentage
Rewritten(old, new) ==
  LET prm == parseArgs(old).args
      px  == IntToStr(images[idFromFilename(Get(prm, <<"fn">>))].dimensions[1])
               \o <<"px">>
  IN  /\ HasItem(new, <<"w">>, px)
      /\ Has(prm, <<"w">>) /\ Contains(Get(prm, <<"w">>), "%")
           => HasItem(new, <<"ew">>, Get(prm, <<"w">>))

\* C7: when updateWidths returns, every directive of the document has been
\* rewritten on its own line: w is the pixel width of the asset of its fn, ew
\* is the old w if that was a percentage; every other line is as it was and
\* the buffer has as many lines as before.
C7_WidthsRewritten ==
  pc = "done" =>
    /\ Len(outBuf) = Len(inBuf)
    /\ \A i \in 1..Len(inBuf) :
         IF i - 1 \in DirectiveStarts(inBuf, 0)
         THEN Rewritten(inBuf[i], outBuf[i])
         ELSE outBuf[i] = inBuf[i]

\* C7, for the directives the parser returned a record for only
C7_RecordsRewritten ==
  pc = "done" =>
    /\ Len(outBuf) = Len(inBuf)
    /\ \A i \in 1..Len(inBuf) :
         IF \E k \in DOMAIN illustrations : illustrations[k].startLine = i - 1
         THEN Rewritten(inBuf[i], outBuf[i])
         ELSE outBuf[i] = inBuf[i]

\* w=50% with an asset 1200 pixels wide has become ew=50%, w=1200px
C7_Witness ==
  /\ pc = "done"
  /\ \E i \in 1..Len(inBuf) :
       /\ HasItem(inBuf[i], <<"w">>, <<"5", "0", "%">>)
       /\ HasItem(outBuf[i], <<"ew">>, <<"5", "0", "%">>)
       /\ HasItem(outBuf[i], <<"w">>, <<"1", "2", "0", "0", "px">>)

----------------------------------------------------------------------------
(* calcImageWidths *)

DigitValue(a) == CHOOSE n \in 0..9 : Digits[n + 1] = a

IsDigits(s) == s # <<>> /\ \A i \in 1..Len(s) : \E n \in 0..9 : Digits[n + 1] = s[i]

\* int(s) of a string of decimal digits
RECURSIVE StrToInt(_)
StrToInt(s) ==
  IF Len(s) = 1 THEN DigitValue(s[1])
  ELSE 10 * StrToInt(SubSeq(s, 1, Len(s) - 1)) + DigitValue(s[Len(s)])

\* re.sub("%", "", v)
StripPercent(v) == SelectSeq(v, LAMBDA a : a # "%")

\* the parameter the scale is read from: w, else ew, else None
ScaleParam(prm) ==
  IF Has(prm, <<"w">>) /\ Contains(Get(prm, <<"w">>), "%") THEN <<"w">>
  ELSE IF Has(prm, <<"ew">>) /\ Contains(Get(prm, <<"ew">>), "%") THEN <<"ew">>
  ELSE None

RoundScale(p, mw) == (2 * p * mw + 100) \div 200

\* int(scale * int(maxwidth)) for scale = p / 100.0.  The quotient and the
\* product are IEEE doubles in the code; for the percentages of CalcLines
\* (25, 50, 75) they are exact, and int() of the exact product is this.
TruncScale(p, mw) == (p * mw) \div 100

Quoted(s) == <<"\"">> \o s \o <<"\"">>

\* '"{}"'.format(int(scale * int(maxwidth)))
CalculatedWidth(prm, mw) ==
  LET sp == ScaleParam(prm) IN
  Quoted(IntToStr(IF sp = None THEN 0
                  ELSE TruncScale(StrToInt(StripPercent(Get(prm, sp))), mw)))

CacheKey(fn) == <<"images/">> \o fn

\* the order of sorted(d.items()) for the ids the inventories are drawn from
SortedIds ==
  << <<"a">>, <<"b">>, <<"cover">>, <<"i_", "099">>, <<"z">> >>

Sorted(d) == SelectSeq(SortedIds, LAMBDA k : k \in DOMAIN d)

\* parseIllustrationBlocks has returned; buildImageDictionary; loadJSON
CalcBegin ==
  /\ pc = "parse" /\ lineNum >= Len(inBuf)
  /\ pc' = "calc"
  /\ item' = 0
  /\ UNCHANGED <<inBuf, outBuf, lineNum, currentScanPage, images, illustrations,
                 order, log, counts, jsonData, argVars>>

CalcParams == illustrations[order[item + 1]].ilParams

\* int() raises on a percentage that is not digits
CalcOk ==
  ScaleParam(CalcParams) # None =>
    IsDigits(StripPercent(Get(CalcParams, ScaleParam(CalcParams))))

\* one pass of the first loop: the entry of a directive
CalcItem ==
  /\ pc = "calc" /\ item < Len(order)
  /\ CalcOk
  /\ jsonData' = SetItem(jsonData, CacheKey(Get(CalcParams, <<"fn">>)),
                         [ targetWidth |-> CalculatedWidth(CalcParams, maxwidth) ])
  /\ log' = IF ScaleParam(CalcParams) = None
            THEN Append(log, [ kind |-> "nopercent", fn |-> Get(CalcParams, <<"fn">>) ])
            ELSE log
  /\ item' = item + 1
  /\ UNCHANGED <<pc, inBuf, outBuf, lineNum, currentScanPage, images, illustrations,
                 order, counts, argVars>>

CalcCrash ==
  /\ pc = "calc" /\ item < Len(order)
  /\ ~CalcOk
  /\ pc' = "crash"
  /\ UNCHANGED <<inBuf, outBuf, lineNum, currentScanPage, images, illustrations,
                 order, log, counts, jsonData, argVars, item>>

\* the first loop is over: the second one starts
CalcFallbackBegin ==
  /\ pc = "calc" /\ item >= Len(order)
  /\ pc' = "fallback"
  /\ item' = 0
  /\ UNCHANGED <<inBuf, outBuf, lineNum, currentScanPage, images, illustrations,
                 order, log, counts, jsonData, argVars>>

FallbackWidth == Quoted(<<"4", "0", "%">>)

\* one pass of the second loop: an image no directive is stored for
CalcFallback ==
  /\ pc = "fallback" /\ item < Len(Sorted(images))
  /\ LET k == Sorted(images)[item + 1] IN
     jsonData' = IF k \notin DOMAIN illustrations
                 THEN SetItem(jsonData, CacheKey(images[k].fileName),
                              [ targetWidth |-> FallbackWidth ])
                 ELSE jsonData
  /\ item' = item + 1
  /\ UNCHANGED <<pc, inBuf, outBuf, lineNum, currentScanPage, images, illustrations,
                 order, log, counts, argVars>>

\* images.json is written, the masters are touched: touch exits 0
CalcReturn ==
  /\ pc = "fallback" /\ item >= Len(Sorted(images))
  /\ pc' = "done"
  /\ UNCHANGED <<inBuf, outBuf, lineNum, currentScanPage, images, illustrations,
                 order, log, counts, jsonData, argVars, item>>

\* the same, touch exits non-zero: fatal(), after images.json was written
CalcTouchFatal ==
  /\ pc = "fallback" /\ item >= Len(Sorted(images))
  /\ pc' = "fatal"
  /\ UNCHANGED <<inBuf, outBuf, lineNum, currentScanPage, images, illustrations,
                 order, log, counts, jsonData, argVars, item>>

CalcLines ==
  { Il(P(<<"fn">>, <<"a", ".jpg">>) \o P(<<"w">>, <<"2", "5", "%">>)),
    Il(P(<<"fn">>, <<"a", ".jpg">>) \o P(<<"w">>, <<"7", "5", "%">>)),
    Il(P(<<"fn">>, <<"b", ".jpg">>) \o P(<<"w">>, <<"6", "0", "0", "px">>)
         \o P(<<"ew">>, <<"5", "0", "%">>)),
    Il(P(<<"fn">>, <<"b", ".jpg">>) \o P(<<"w">>, <<"6", "0", "0", "px">>)),
    Il(P(<<"fn">>, <<"z", ".jpg">>) \o P(<<"w">>, <<"x", "%">>)),
    <<"text">> }

CalcFiles ==
  { [ fn |-> <<"a", ".jpg">>, w |-> 600, h |-> 800 ],
    [ fn |-> <<"cover", ".jpg">>, w |-> 500, h |-> 700 ],
    [ fn |-> <<"i_", "099", ".jpg">>, w |-> 320, h |-> 200 ] }

CalcMaxWidths == { 3, 800 }

\* what loadJSON finds: no cache, or one with an entry of an earlier run
CalcCaches ==
  { <<>>,
    CacheKey(<<"a", ".jpg">>) :> [ targetWidth |-> Quoted(<<"9">>) ] }

InitCalc ==
  /\ InitDoc(CalcLines, { buildImageDictionary(CalcFiles) }, CalcMaxWidths)
  /\ jsonData \in CalcCaches

NextCalc ==
  ParseIl \/ ParseCrash \/ ParseSkip \/ CalcBegin \/ CalcItem \/ CalcCrash
    \/ CalcFallbackBegin \/ CalcFallback \/ CalcReturn \/ CalcTouchFatal

SpecCalc == InitCalc /\ [][NextCalc]_vars

----------------------------------------------------------------------------
(* Claims about calcImageWidths (SpecCalc) *)

DirectiveParams(n) == parseArgs(inBuf[n + 1]).args

DirectiveId(n) == idFromFilename(Get(DirectiveParams(n), <<"fn">>))

\* the number a cache value stands for, with or without quotes; -1 if none
Denoted(v) ==
  IF IsDigits(StripQuotes(v)) THEN StrToInt(StripQuotes(v)) ELSE -1

\* round(a / b), halves up
RoundDiv(a, b) == (2 * a + b) \div (2 * b)

CacheWritten == pc \in { "done", "fatal" } /\ lineNum >= Len(inBuf)

TargetWidth(fn) == jsonData[CacheKey(fn)].targetWidth

\* C8 (as stated): every directive whose w or ew is a percentage p has the
\* cache entry 'images/<fn>' with target width round(p/100 * maxwidth), and
\* every inventory asset without a directive has one with round(0.40 * maxwidth).
C8_Original ==
  CacheWritten =>
    /\ \A n \in DirectiveStarts(inBuf, 0) : \A q \in { <<"w">>, <<"ew">> } :
         LET prm == DirectiveParams(n) IN
         Has(prm, q) /\ Contains(Get(prm, q), "%") =>
           /\ CacheKey(Get(prm, <<"fn">>)) \in DOMAIN jsonData
           /\ Denoted(TargetWidth(Get(prm, <<"fn">>)))
                = RoundDiv(StrToInt(StripPercent(Get(prm, q))) * maxwidth, 100)
    /\ \A id \in DOMAIN images :
         (\A n \in DirectiveStarts(inBuf, 0) : DirectiveId(n) # id) =>
           /\ CacheKey(images[id].fileName) \in DOMAIN jsonData
           /\ Denoted(TargetWidth(images[id].fileName)) = RoundDiv(40 * maxwidth, 100)

\* the directives of the document that are the last one of their id
LastDirectives ==
  { n \in DirectiveStarts(inBuf, 0) :
      \A m \in DirectiveStarts(inBuf, 0) : DirectiveId(m) = DirectiveId(n) => m <= n }

\* C8 (amended): for the last directive of each fn-derived id, the cache entry
\* 'images/<fn>' is the string "<n>" in double quotes, n the product
\* p/100 * maxwidth truncated (not rounded), p the percentage of w or, when w
\* is none, of ew, and n = 0 when neither is one; for every inventory asset
\* whose id no directive has, the entry is the literal "40%" in double quotes.
C8_CacheEntries ==
  CacheWritten =>
    /\ \A n \in LastDirectives :
         LET prm == DirectiveParams(n)
             pct == IF Has(prm, <<"w">>) /\ Contains(Get(prm, <<"w">>), "%")
                    THEN StrToInt(StripPercent(Get(prm, <<"w">>)))
                    ELSE IF Has(prm, <<"ew">>) /\ Contains(Get(prm, <<"ew">>), "%")
                    THEN StrToInt(StripPercent(Get(prm, <<"ew">>)))
                    ELSE 0
             m   == (pct * maxwidth - ((pct * maxwidth) % 100)) \div 100
         IN  /\ CacheKey(Get(prm, <<"fn">>)) \in DOMAIN jsonData
             /\ TargetWidth(Get(prm, <<"fn">>)) = <<"\"">> \o IntToStr(m) \o <<"\"">>
    /\ \A id \in DOMAIN images :
         (\A n \in DirectiveStarts(inBuf, 0) : DirectiveId(n) # id) =>
           /\ CacheKey(images[id].fileName) \in DOMAIN jsonData
           /\ TargetWidth(images[id].fileName) = <<"\"", "4", "0", "%", "\"">>

\* maxwidth 800 and w=25% gave "200", and an asset without directive got "40%"
C8_Witness ==
  /\ pc = "done" /\ maxwidth = 800
  /\ \E n \in LastDirectives :
       HasItem(inBuf[n + 1], <<"w">>, <<"2", "5", "%">>)
  /\ CacheKey(<<"a", ".jpg">>) \in DOMAIN jsonData
  /\ TargetWidth(<<"a", ".jpg">>) = <<"\"", "2", "0", "0", "\"">>
  /\ CacheKey(<<"cover", ".jpg">>) \in DOMAIN jsonData
  /\ TargetWidth(<<"cover", ".jpg">>) = <<"\"", "4", "0", "%", "\"">>

----------------------------------------------------------------------------
(* checkForIssues *)

MAX_W == 700

MAX_H == 700

MAX_SIZE == 100

\* int(getFileSizeInKb("images/" + fn)): what os.stat finds for the files the
\* inventories are drawn from
FileSizeKb(fn) == IF fn = <<"cover", ".jpg">> THEN 150 ELSE 50

\* parseIllustrationBlocks has returned; the loop over the images starts
CheckBegin ==
  /\ pc = "parse" /\ lineNum >= Len(inBuf)
  /\ pc' = "images"
  /\ item' = 0
  /\ UNCHANGED <<inBuf, outBuf, lineNum, currentScanPage, images, illustrations,
                 order, log, counts, jsonData, argVars>>

IsUnusedExceptCover(k, fileName) ==
  k \notin DOMAIN illustrations /\ fileName # <<"cover", ".jpg">>

\* the test of the "Unused image" report
IsUnusedImage(k, fileName) == k \notin DOMAIN illustrations

Finding(kind, fn) == [ kind |-> kind, fn |-> fn ]

\* what one pass of the first loop reports for image k
ImageFindings(k) ==
  LET i == images[k] IN
  (IF IsUnusedImage(k, i.fileName) THEN << Finding("unused", i.fileName) >> ELSE <<>>)
    \o (IF i.dimensions[1] > MAX_W THEN << Finding("width", i.fileName) >> ELSE <<>>)
    \o (IF i.dimensions[2] > MAX_H THEN << Finding("height", i.fileName) >> ELSE <<>>)
    \o (IF FileSizeKb(i.fileName) > MAX_SIZE THEN << Finding("size", i.fileName) >> ELSE <<>>)

CheckImage ==
  /\ pc = "images" /\ item < Len(Sorted(images))
  /\ log' = log \o ImageFindings(Sorted(images)[item + 1])
  /\ item' = item + 1
  /\ UNCHANGED <<pc, inBuf, outBuf, lineNum, currentScanPage, images, illustrations,
                 order, counts, jsonData, argVars>>

\* the first loop is over: the loop over the illustrations starts
CheckIlsBegin ==
  /\ pc = "images" /\ item >= Len(Sorted(images))
  /\ pc' = "ils"
  /\ item' = 0
  /\ UNCHANGED <<inBuf, outBuf, lineNum, currentScanPage, images, illustrations,
                 order, log, counts, jsonData, argVars>>

CheckKey == Sorted(illustrations)[item + 1]

CheckParams == illustrations[CheckKey].ilParams

\* re.sub("[^0-9]", "", w)
OnlyDigits(v) == SelectSeq(v, LAMBDA a : \E n \in 0..9 : Digits[n + 1] = a)

\* neither i['ilParams']['w'] nor int() raises
CheckOk ==
  /\ Has(CheckParams, <<"w">>)
  /\ ~Contains(Get(CheckParams, <<"w">>), "%")
       => OnlyDigits(Get(CheckParams, <<"w">>)) # <<>>

\* what one pass of the second loop reports
IlFindings(k) ==
  LET il == illustrations[k]
      w  == Get(il.ilParams, <<"w">>)
  IN  (IF k \notin DOMAIN images
       THEN << Finding("missing", Get(il.ilParams, <<"fn">>)) >> ELSE <<>>)
        \o (IF /\ ~Contains(w, "%")
               /\ k \in DOMAIN images
               /\ StrToInt(OnlyDigits(w)) # images[k].dimensions[1]
            THEN << [ kind |-> "mismatch", fn |-> Get(il.ilParams, <<"fn">>),
                      w |-> StrToInt(OnlyDigits(w)), actual |-> images[k].dimensions[1],
                      line |-> il.startLine, ilStatement |-> il.ilStatement ] >>
            ELSE <<>>)

CheckIl ==
  /\ pc = "ils" /\ item < Len(Sorted(illustrations))
  /\ CheckOk
  /\ log' = log \o IlFindings(CheckKey)
  /\ item' = item + 1
  /\ UNCHANGED <<pc, inBuf, outBuf, lineNum, currentScanPage, images, illustrations,
                 order, counts, jsonData, argVars>>

\* KeyError on 'w', or ValueError of int(''): "Missing image" is reported first
CheckCrash ==
  /\ pc = "ils" /\ item < Len(Sorted(illustrations))
  /\ ~CheckOk
  /\ log' = IF CheckKey \notin DOMAIN images
            THEN Append(log, Finding("missing", Get(CheckParams, <<"fn">>)))
            ELSE log
  /\ pc' = "crash"
  /\ UNCHANGED <<inBuf, outBuf, lineNum, currentScanPage, images, illustrations,
                 order, counts, jsonData, argVars, item>>

CheckReturn ==
  /\ pc = "ils" /\ item >= Len(Sorted(illustrations))
  /\ pc' = "done"
  /\ UNCHANGED <<inBuf, outBuf, lineNum, currentScanPage, images, illustrations,
                 order, log, counts, jsonData, argVars, item>>

CheckLines ==
  { Il(P(<<"fn">>, <<"a", ".jpg">>) \o P(<<"w">>, <<"6", "0", "0", "px">>)),
    Il(P(<<"fn">>, <<"a", ".jpg">>) \o P(<<"w">>, <<"5", "0", "0", "px">>)),
    Il(P(<<"fn">>, <<"b", ".jpg">>)),
    Il(P(<<"fn">>, <<"b", ".jpg">>) \o P(<<"w">>, <<"auto">>)),
    Il(P(<<"fn">>, <<"z", ".jpg">>) \o P(<<"w">>, <<"5", "0", "%">>)),
    <<"text">> }

CheckFileA == [ fn |-> <<"a", ".jpg">>, w |-> 600, h |-> 800 ]

CheckFileCover == [ fn |-> <<"cover", ".jpg">>, w |-> 500, h |-> 700 ]

CheckFile099 == [ fn |-> <<"i_", "099", ".jpg">>, w |-> 900, h |-> 200 ]

CheckInventories ==
  { buildImageDictionary(F) :
      F \in { {}, {CheckFileA}, {CheckFile099}, {CheckFileA, CheckFileCover, CheckFile099} } }

InitCheck == InitDoc(CheckLines, CheckInventories, { 0 }) /\ jsonData = <<>>

NextCheck ==
  ParseIl \/ ParseCrash \/ ParseSkip \/ CheckBegin \/ CheckImage \/ CheckIlsBegin
    \/ CheckIl \/ CheckCrash \/ CheckReturn

SpecCheck == InitCheck /\ [][NextCheck]_vars

----------------------------------------------------------------------------
(* Claims about checkForIssues (SpecCheck) *)

\* some directive of the document has the fn-derived id `id`
Referenced(id) == \E n \in DirectiveStarts(inBuf, 0) : DirectiveId(n) = id

UnusedFindings(fn) ==
  Cardinality({ i \in 1..Len(log) : log[i].kind = "unused" /\ log[i].fn = fn })

Exempted == { <<"cover", ".jpg">> }

\* the document parsed and the loop over the images has ended
ImagesChecked == lineNum >= Len(inBuf) /\ pc \in { "ils", "done", "crash" }

\* C9 (as stated): an inventory asset gets one "unused image" finding when no
\* directive references it and its filename is not exempted, and none otherwise.
C9_Original ==
  ImagesChecked =>
    \A id \in DOMAIN images :
      UnusedFindings(images[id].fileName)
        = IF ~Referenced(id) /\ images[id].fileName \notin Exempted THEN 1 ELSE 0

\* C9 (amended): an inventory asset gets one "unused image" finding when no
\* directive references it, whatever its filename (cover.jpg too), and none
\* when one does.
C9_UnusedFindings ==
  ImagesChecked =>
    \A id \in DOMAIN images :
      UnusedFindings(images[id].fileName) = IF ~Referenced(id) THEN 1 ELSE 0

\* cover.jpg and i_099.jpg, not referenced, have a finding each; a.jpg,
\* referenced, has none
C9_Witness ==
  /\ pc = "done"
  /\ { <<"a">>, <<"cover">>, <<"i_", "099">> } \subseteq DOMAIN images
  /\ Referenced(<<"a">>)
  /\ UnusedFindings(<<"a", ".jpg">>) = 0
  /\ UnusedFindings(<<"cover", ".jpg">>) = 1
  /\ UnusedFindings(<<"i_", "099", ".jpg">>) = 1

\* C10: on a document that parses, checkForIssues never ends by an exception:
\* it reaches its return with the buffer as it was.
C10_NoCheckFatal ==
  /\ ~(pc = "crash" /\ lineNum >= Len(inBuf))
  /\ pc = "done" => outBuf = inBuf

\* checkForIssues has raised on a directive without w, after the parse
C10_Witness ==
  /\ pc = "crash" /\ lineNum >= Len(inBuf)
  /\ ~Has(CheckParams, <<"w">>)

----------------------------------------------------------------------------
(* Claims about the outcome of parseIllustrationBlocks (SpecParse) *)

\* the '.il' line at 0-based index n has no fn parameter
MissingFn(n) == ~Has(parseArgs(inBuf[n + 1]).args, <<"fn">>)

\* the '.il' line at n is followed by a bare '.ca' line that opens a caption
\* block with no '.ca-' line before the end of the buffer
Unterminated(n) ==
  /\ n + 1 < Len(inBuf)
  /\ IsCa(inBuf[n + 2]) /\ ~IsCaSingle(inBuf[n + 2])
  /\ CaBlockEnd(inBuf, n + 1) < 0

\* C11: parseIllustrationBlocks fails exactly on an '.il' line without fn or
\* with a caption block that never reaches its '.ca-' line; on every other
\* document, one whose last line is an '.il' line included, it returns.
C11_ParseOutcome ==
  /\ pc = "crash" => MissingFn(lineNum) \/ Unterminated(lineNum)
  /\ pc = "done" =>
       \A n \in DirectiveStarts(inBuf, 0) : ~MissingFn(n) /\ ~Unterminated(n)

\* the parser has raised on an '.il' line with fn that is the last line
C11_Witness ==
  /\ pc = "crash"
  /\ lineNum = Len(inBuf) - 1
  /\ ~MissingFn(lineNum)

----------------------------------------------------------------------------
(* Claims about the text generateIlStatement emits (SpecArgs) *)

HasWhitespace(v) == \E i \in 1..Len(v) : v[i] \in WhiteAtoms

\* key=value as C12 describes it: the value in quotes when it has whitespace
ItemText(e) ==
  KeyValue(e.k, IF HasWhitespace(e.v) THEN <<"'">> \o e.v \o <<"'">> ELSE e.v)

RECURSIVE ItemsText(_)
ItemsText(m) == IF m = <<>> THEN <<>> ELSE ItemText(m[1]) \o ItemsText(Tail(m))

\* the items of m whose key is one of the eight priority keys, in that order
PriorityItems(m) ==
  LET present == SelectSeq(PriorityKeys, LAMBDA k : Has(m, k)) IN
  [ i \in 1..Len(present) |-> [ k |-> present[i], v |-> Get(m, present[i]) ] ]

RemainingItems(m) ==
  SelectSeq(m, LAMBDA e : \A i \in 1..Len(PriorityKeys) : PriorityKeys[i] # e.k)

\* the orders the remaining items can be emitted in
Orderings(m) ==
  { [ i \in 1..Len(m) |-> m[f[i]] ] :
      f \in { g \in [1..Len(m) -> 1..Len(m)] :
                \A i, j \in 1..Len(m) : i # j => g[i] # g[j] } }

\* C12: the statement is '.il' followed by every parameter once as key=value,
\* the priority keys present first in their order, then the remaining keys,
\* and every value with whitespace in it (a space or a tab) is in quotes.
C12_StatementText ==
  pc = "stmt" =>
    \E rest \in Orderings(RemainingItems(given)) :
      outBuf[1] = <<".il">> \o ItemsText(PriorityItems(given)) \o ItemsText(rest)

\* a map with a priority key, another key and a value with a tab in it has
\* been serialized
C12_Witness ==
  /\ pc = "stmt"
  /\ PriorityItems(given) # <<>> /\ RemainingItems(given) # <<>>
  /\ \E i \in 1..Len(given) : given[i].v = <<"a", "\t", "b">>

====
